---- MODULE Spec2Model ----
(***************************************************************************)
(* The sequential playback engine of music/abstract_music_player.py:       *)
(* AbstractMusicPlayer with its entry queue, the `current` slot, the        *)
(* single-slot `finished` queue and the play / skip / stop coroutines,      *)
(* together with the voice client (the audio sink) whose player thread      *)
(* invokes the `after` callback.                                            *)
(*                                                                         *)
(* Coroutines of the event loop run atomically from one await to the next. *)
(* The `after` callback runs on the audio player's own thread, so its two  *)
(* statements are separate steps that interleave with the coroutines.      *)
(***************************************************************************)
EXTENDS Integers, Sequences, FiniteSets, TLC

\* ---------------------------------------------------------------- bounds
MaxEntries == 3        \* entries ever enqueued; entry k is the k-th enqueued
MaxTasks == 2          \* concurrent invocations of play()
MaxDisconnects == 1    \* stop(ctx, True) calls suspended in vc.disconnect()
MaxQueued == 12        \* queue lengths the playlist view is applied to
MaxPage == 3           \* page arguments run over -MaxPage..MaxPage
MaxChannel == 2        \* voice channels of the guild

PageSize == 10         \* entries on a page of the playlist
Pages == (0 - MaxPage)..MaxPage
Channels == 1..MaxChannel

Entries == 1..MaxEntries
Tasks == 1..MaxTasks
None == 0              \* Python's None

VARIABLES
    entry_queue,   \* self.entry_queue: the deque of entries, head first
    current,       \* self.current: an entry or None
    finished,      \* self.finished: asyncio.Queue(1), as a sequence
    playing,       \* self.playing
    vc,            \* ctx.voice_client is not None
    sink,          \* the entry the voice client is playing, or None
    after,         \* per entry: where its `after` callback invocation stands
    pc,            \* per play() invocation: the await it is suspended at
    cur,           \* per play() invocation: `cur`, the entry bound by `with`
    skipE,         \* the entry whose skip() vote is awaited, or None
    discs,         \* stop(ctx, True) calls suspended in vc.disconnect()
    nextId,        \* the next entry to be enqueued
    started,       \* history: entries started on the sink, in order
    stopMark,      \* history: nextId when stop() last cleared the engine
    signals,       \* history: per entry, put_nowait calls of its callback
    raised,        \* history: exceptions raised so far
    lastOp,        \* history: the operation the last step belongs to
    reply,         \* history: the message the last step sent, or ""
    halted,        \* history: the entry whose playback the last step halted
    shown,         \* the outcome of the last playlist(ctx, page) call
    gate           \* the outcome of the last check_conditions call

engine == <<entry_queue, current, finished, playing>>
voice == <<vc, sink, after>>
tasks == <<pc, cur, skipE, discs>>
history == <<started, stopMark, signals, raised>>
view == <<shown, gate>>
vars == <<entry_queue, current, finished, playing, vc, sink, after, pc, cur,
          skipE, discs, nextId, started, stopMark, signals, raised, lastOp,
          reply, halted, shown, gate>>

\* ------------------------------------------------------- pure operations
\* `not self.entry_queue`: a deque is falsy exactly when it has no element
Falsy(q) == Len(q) = 0

\* a variant of `empty` that looks at the queue alone
empty_queue_only == Falsy(entry_queue)

\* AbstractMusicPlayer.empty
empty == current = None /\ Falsy(entry_queue)

\* a variant of the pop that takes the newest entry, as deque.pop() does
popright(q) == [entry |-> q[Len(q)], rest |-> SubSeq(q, 1, Len(q) - 1)]

\* deque.popleft() on a non-empty deque
popleft(q) == [entry |-> Head(q), rest |-> Tail(q)]

\* a variant of the guard of play() that tests `current` instead
PlayingByCurrent == current # None

\* the guard of play(): `if self.playing: return`
AlreadyPlaying == playing

\* a variant of the guard of skip() that tests `playing` instead
NothingPlayingByFlag == ~playing

\* the guard of skip(): `if not self.current`
NothingPlaying == current = None

\* a variant of the wait that reads the signal and leaves it in the slot
Peek(q) == q

\* `await self.finished.get()`: the loop takes the signal out of the slot
Consume(q) == Tail(q)

\* a variant of stop() that clears the queue only on disconnect
stop_keep_queue(d) == [current |-> None,
                       entry_queue |-> IF d THEN <<>> ELSE entry_queue,
                       halt |-> vc,
                       disconnect |-> vc /\ d]

\* stop(ctx, disconnect): what it assigns, and whether it halts the voice
\* client and goes on to release the connection
stop(d) == [current |-> None,
            entry_queue |-> <<>>,
            halt |-> vc,
            disconnect |-> vc /\ d]

\* a variant of __play_next that stops without disconnect
AutoStopKeepsConnection == FALSE

\* __play_next: the `True` of `await self.stop(ctx, True)`
AutoStopDisconnect == TRUE

\* VoiceClient.stop() as used by skip() and stop(): the player thread of the
\* entry being played, if any, ends and goes on to call `after`
HaltSink(h) == IF h THEN None ELSE sink
HaltAfter(h) == IF h /\ sink # None THEN [after EXCEPT ![sink] = "put"] ELSE after
HaltWho(h) == IF h THEN sink ELSE None

\* list slicing, lst[start:stop]: a negative index counts from the end,
\* and both ends are clamped to the list
SliceIndex(i, n) ==
    IF i < 0 THEN (IF n + i < 0 THEN 0 ELSE n + i)
    ELSE (IF i > n THEN n ELSE i)
Slice(l, start, end) ==
    IF SliceIndex(start, Len(l)) < SliceIndex(end, Len(l))
    THEN SubSeq(l, SliceIndex(start, Len(l)) + 1, SliceIndex(end, Len(l)))
    ELSE <<>>

\* AbstractMusicPlayer.lst
lst == entry_queue

\* a variant of total_page that counts the current entry as well
total_page_with_current ==
    (Len(entry_queue) + (IF current = None THEN 0 ELSE 1)) \div PageSize + 1

\* AbstractMusicPlayer.total_page
total_page == Len(entry_queue) \div PageSize + 1

\* no playlist call so far
NoEmbed == [called |-> FALSE, page |-> 0, reply |-> "", rendered |-> FALSE,
            total_page |-> 0, current |-> None, section |-> <<>>]

\* playlist(ctx, page): the message sent, or the arguments of the embed
playlist(page) ==
    IF empty
    THEN [NoEmbed EXCEPT !.called = TRUE, !.page = page,
                         !.reply = "Playlist is empty"]
    ELSE LET start == PageSize * (page - 1)
             section == Slice(lst, start, start + PageSize)
         IN  IF Falsy(section) /\ current = None
             THEN [NoEmbed EXCEPT !.called = TRUE, !.page = page,
                                  !.reply = "Page is not in the playlist."]
             ELSE [called |-> TRUE, page |-> page, reply |-> "",
                   rendered |-> TRUE, total_page |-> total_page,
                   current |-> current, section |-> section]

\* no check_conditions call so far
NoGate == [called |-> FALSE, ch |-> None, status |-> "NO", ctx_ch |-> None,
           ok |-> FALSE, msg |-> ""]

\* PlayingStatus: NO when the player is idle, else what it plays
Statuses == {"NO", "FILE", "WEB"}

\* a variant of check_conditions without `or ctx_ch is None`
check_conditions_strict(ch, status, ctx_ch) ==
    IF status = "NO" /\ ch = None
    THEN [ok |-> FALSE,
          msg |-> "You must be in a voice channel to use this command."]
    ELSE IF status # "NO" /\ ~(ch = ctx_ch)
    THEN [ok |-> FALSE,
          msg |-> "You must be in the same voicechannel as me to use this command."]
    ELSE [ok |-> TRUE, msg |-> ""]

\* check_conditions(ctx, music_player), with ch the author's voice channel
\* and ctx_ch the channel of ctx.voice_client, None when there is none
check_conditions(ch, status, ctx_ch) ==
    IF status = "NO" /\ ch = None
    THEN [ok |-> FALSE,
          msg |-> "You must be in a voice channel to use this command."]
    ELSE IF status # "NO" /\ ~(ch = ctx_ch \/ ctx_ch = None)
    THEN [ok |-> FALSE,
          msg |-> "You must be in the same voicechannel as me to use this command."]
    ELSE [ok |-> TRUE, msg |-> ""]

\* ------------------------------------------------------------------ init
Init ==
    /\ entry_queue = <<>>
    /\ current = None
    /\ finished = <<>>
    /\ playing = FALSE
    /\ vc = FALSE
    /\ sink = None
    /\ after = [e \in Entries |-> "none"]
    /\ pc = [t \in Tasks |-> "idle"]
    /\ cur = [t \in Tasks |-> None]
    /\ skipE = None
    /\ discs = 0
    /\ nextId = 1
    /\ started = <<>>
    /\ stopMark = 1
    /\ signals = [e \in Entries |-> 0]
    /\ raised = {}
    /\ lastOp = "init"
    /\ reply = ""
    /\ halted = None
    /\ shown = NoEmbed
    /\ gate = NoGate

\* --------------------------------------------------------------- enqueue
\* enqueue(entry): appends to the tail of the queue
Enqueue ==
    /\ nextId <= MaxEntries
    /\ entry_queue' = Append(entry_queue, nextId)
    /\ nextId' = nextId + 1
    /\ lastOp' = "enqueue"
    /\ UNCHANGED view
    /\ reply' = ""
    /\ halted' = None
    /\ UNCHANGED <<current, finished, playing, voice, tasks, history>>

\* ------------------------------------------------------------- play loop
\* `await cur.play(ctx, self.channel, self.__after)`: the entry joins the
\* voice channel if need be and starts its audio on the voice client
EntryPlay(e) ==
    /\ vc' = TRUE
    /\ sink' = e
    /\ started' = Append(started, e)

\* __play, from `while True` to the first suspension of the iteration:
\* `await ctx.trigger_typing()` for a YTDLSource entry, else
\* `await ctx.send(...)` after the entry's play
LoopTop(t, ytdl) ==
    /\ playing' = TRUE
    /\ IF Falsy(entry_queue)
       THEN \* popleft() on an empty deque raises IndexError out of play()
            /\ raised' = raised \cup {"IndexError"}
            /\ pc' = [pc EXCEPT ![t] = "idle"]
            /\ cur' = [cur EXCEPT ![t] = None]
            /\ UNCHANGED <<entry_queue, current, vc, sink, started>>
       ELSE /\ current' = popleft(entry_queue).entry
            /\ entry_queue' = popleft(entry_queue).rest
            /\ cur' = [cur EXCEPT ![t] = popleft(entry_queue).entry]
            /\ IF ytdl
               THEN /\ pc' = [pc EXCEPT ![t] = "typing"]
                    /\ UNCHANGED <<vc, sink, started>>
               ELSE /\ pc' = [pc EXCEPT ![t] = "announce"]
                    /\ EntryPlay(popleft(entry_queue).entry)
            /\ UNCHANGED raised

\* play(): returns at once when playing or empty, else enters the loop
Play(t) ==
    /\ pc[t] = "idle"
    /\ \A u \in Tasks : u < t => pc[u] # "idle"   \* invocations are alike
    /\ lastOp' = "play"
    /\ UNCHANGED view
    /\ reply' = ""
    /\ halted' = None
    /\ IF AlreadyPlaying \/ empty
       THEN UNCHANGED <<engine, pc, cur, raised, vc, sink, started>>
       ELSE /\ \E ytdl \in BOOLEAN : LoopTop(t, ytdl)
            /\ UNCHANGED finished
    /\ UNCHANGED <<after, skipE, discs, nextId, stopMark, signals>>

\* `await ctx.trigger_typing()` returns and the entry's play is awaited
TypingDone(t) ==
    /\ pc[t] = "typing"
    /\ EntryPlay(cur[t])
    /\ pc' = [pc EXCEPT ![t] = "announce"]
    /\ lastOp' = "entry_play"
    /\ UNCHANGED view
    /\ reply' = ""
    /\ halted' = None
    /\ UNCHANGED <<engine, after, cur, skipE, discs, nextId, stopMark,
                   signals, raised>>

\* stop(ctx, disconnect) up to its await: clear, halt the sink
StopBody(d) ==
    /\ current' = stop(d).current
    /\ entry_queue' = stop(d).entry_queue
    /\ sink' = HaltSink(stop(d).halt)
    /\ after' = HaltAfter(stop(d).halt)
    /\ halted' = HaltWho(stop(d).halt)

\* the loop resumes with a completion signal: __play_next, then either the
\* final stop or the next iteration
LoopResume(t) ==
    /\ finished' = Consume(finished)
    /\ IF empty
       THEN /\ playing' = FALSE
            /\ StopBody(AutoStopDisconnect)
            /\ pc' = [pc EXCEPT ![t] = IF stop(AutoStopDisconnect).disconnect
                                        THEN "disconnect" ELSE "idle"]
            /\ cur' = [cur EXCEPT ![t] = None]
            /\ UNCHANGED <<raised, vc, started>>
       ELSE /\ \E ytdl \in BOOLEAN : LoopTop(t, ytdl)
            /\ halted' = None
            /\ UNCHANGED after

\* `await ctx.send('Now playing:...')` returns; finished.get() returns at
\* once when the signal is already there, else the loop suspends on it
Announce(t) ==
    /\ pc[t] = "announce"
    /\ lastOp' = "announce"
    /\ UNCHANGED view
    /\ reply' = "Now playing"
    /\ IF finished # <<>>
       THEN LoopResume(t)
       ELSE /\ pc' = [pc EXCEPT ![t] = "wait"]
            /\ halted' = None
            /\ UNCHANGED <<engine, voice, cur, raised, started>>
    /\ UNCHANGED <<skipE, discs, nextId, stopMark, signals>>

\* `await self.finished.get()` returns
Get(t) ==
    /\ pc[t] = "wait"
    /\ finished # <<>>
    /\ lastOp' = "get"
    /\ UNCHANGED view
    /\ reply' = ""
    /\ LoopResume(t)
    /\ UNCHANGED <<skipE, discs, nextId, stopMark, signals>>

\* `await vc.disconnect()` of the loop's final stop returns
LoopDisconnected(t) ==
    /\ pc[t] = "disconnect"
    /\ vc' = FALSE
    /\ sink' = HaltSink(TRUE)
    /\ after' = HaltAfter(TRUE)
    /\ halted' = HaltWho(TRUE)
    /\ pc' = [pc EXCEPT ![t] = "idle"]
    /\ lastOp' = "loop_disconnected"
    /\ UNCHANGED view
    /\ reply' = ""
    /\ UNCHANGED <<engine, cur, skipE, discs, nextId, history>>

\* ------------------------------------------------------------------ stop
\* stop(ctx, disconnect), called by a user
Stop(d) ==
    /\ stop(d).disconnect => discs < MaxDisconnects
    /\ StopBody(d)
    /\ discs' = IF stop(d).disconnect THEN discs + 1 ELSE discs
    /\ stopMark' = nextId
    /\ lastOp' = IF d THEN "stop_true" ELSE "stop_false"
    /\ UNCHANGED view
    /\ reply' = ""
    /\ UNCHANGED <<finished, playing, vc, pc, cur, skipE, nextId, started,
                   signals, raised>>

\* `await vc.disconnect()` of a user's stop returns
StopDisconnected ==
    /\ discs > 0
    /\ discs' = discs - 1
    /\ vc' = FALSE
    /\ sink' = HaltSink(TRUE)
    /\ after' = HaltAfter(TRUE)
    /\ halted' = HaltWho(TRUE)
    /\ lastOp' = "stop_disconnected"
    /\ UNCHANGED view
    /\ reply' = ""
    /\ UNCHANGED <<engine, pc, cur, skipE, nextId, history>>

\* ------------------------------------------------------------------ skip
\* skip() up to `await self.current.skip(ctx)`
SkipCall ==
    /\ skipE = None
    /\ lastOp' = "skip"
    /\ UNCHANGED view
    /\ halted' = None
    /\ IF NothingPlaying
       THEN /\ reply' = "Not playing anything."
            /\ UNCHANGED skipE
       ELSE /\ reply' = ""
            /\ skipE' = current
    /\ UNCHANGED <<engine, voice, pc, cur, discs, nextId, history>>

\* the entry's skip policy answers; skip() halts the sink and replies
SkipResume(skipped, is_requester) ==
    /\ skipE # None
    /\ skipE' = None
    /\ sink' = HaltSink(skipped /\ vc)
    /\ after' = HaltAfter(skipped /\ vc)
    /\ halted' = HaltWho(skipped /\ vc)
    /\ lastOp' = IF skipped THEN "skipped" ELSE "not_skipped"
    /\ UNCHANGED view
    /\ reply' = IF skipped /\ is_requester THEN "Song skipped by requester."
                ELSE IF skipped THEN "Song skipped."
                ELSE ""
    /\ UNCHANGED <<engine, vc, pc, cur, discs, nextId, history>>

\* ------------------------------------------------ sink and its callback
\* a callback invocation that has not yet run `if error: ...` and
\* put_nowait, made without or with an error
Putting == {"put", "put_err"}

\* the audio of the entry on the sink ends by itself, or fails with an
\* error that the player thread hands to `after`
SinkFinish(error) ==
    /\ sink # None
    /\ sink' = None
    /\ after' = [after EXCEPT ![sink] = IF error THEN "put_err" ELSE "put"]
    /\ lastOp' = "sink_finish"
    /\ UNCHANGED view
    /\ reply' = ""
    /\ halted' = None
    /\ UNCHANGED <<engine, vc, tasks, nextId, history>>

\* __after: `if error: self.logger.warn(str(error))`, then
\* `self.finished.put_nowait(self.current)`
AfterPut(e) ==
    /\ after[e] \in Putting
    /\ IF Len(finished) >= 1
       THEN \* QueueFull is raised: the callback ends here
            /\ raised' = raised \cup {"QueueFull"}
            /\ after' = [after EXCEPT ![e] = "done"]
            /\ UNCHANGED <<finished, signals>>
       ELSE /\ finished' = Append(finished, current)
            /\ signals' = [signals EXCEPT ![e] = @ + 1]
            /\ after' = [after EXCEPT ![e] = "clear"]
            /\ UNCHANGED raised
    /\ lastOp' = "after_put"
    /\ UNCHANGED view
    /\ reply' = IF after[e] = "put_err" THEN "warn" ELSE ""
    /\ halted' = None
    /\ UNCHANGED <<entry_queue, current, playing, vc, sink, tasks, nextId,
                   started, stopMark>>

\* __after: `self.current = None`
AfterClear(e) ==
    /\ after[e] = "clear"
    /\ current' = None
    /\ after' = [after EXCEPT ![e] = "done"]
    /\ lastOp' = "after_clear"
    /\ UNCHANGED view
    /\ reply' = ""
    /\ halted' = None
    /\ UNCHANGED <<entry_queue, finished, playing, vc, sink, tasks, nextId,
                   history>>

\* --------------------------------------------------------- specification
Next ==
    \/ Enqueue
    \/ \E t \in Tasks : Play(t)
    \/ \E t \in Tasks : TypingDone(t)
    \/ \E t \in Tasks : Announce(t)
    \/ \E t \in Tasks : Get(t)
    \/ \E t \in Tasks : LoopDisconnected(t)
    \/ \E d \in BOOLEAN : Stop(d)
    \/ StopDisconnected
    \/ SkipCall
    \/ \E s, r \in BOOLEAN : SkipResume(s, r)
    \/ \E error \in BOOLEAN : SinkFinish(error)
    \/ \E e \in Entries : AfterPut(e)
    \/ \E e \in Entries : AfterClear(e)

Spec == Init /\ [][Next]_vars

TypeOK ==
    /\ entry_queue \in Seq(Entries)
    /\ current \in Entries \cup {None}
    /\ Len(finished) <= 1
    /\ playing \in BOOLEAN
    /\ vc \in BOOLEAN
    /\ sink \in Entries \cup {None}
    /\ discs \in 0..MaxDisconnects

\* ------------------------------------------------------- the playlist view
\* an engine holding n queued entries, with or without a current entry
InitView ==
    /\ \E n \in 0..MaxQueued : entry_queue = [i \in 1..n |-> i + 1]
    /\ current \in {None, 1}
    /\ finished = <<>>
    /\ playing = (current # None)
    /\ vc = (current # None)
    /\ sink = current
    /\ after = [e \in Entries |-> "none"]
    /\ pc = [t \in Tasks |-> "idle"]
    /\ cur = [t \in Tasks |-> None]
    /\ skipE = None
    /\ discs = 0
    /\ nextId = Len(entry_queue) + 2
    /\ started = IF current = None THEN <<>> ELSE <<current>>
    /\ stopMark = 1
    /\ signals = [e \in Entries |-> 0]
    /\ raised = {}
    /\ lastOp = "init"
    /\ reply = ""
    /\ halted = None
    /\ shown = NoEmbed
    /\ gate = NoGate

\* playlist(ctx, page)
Playlist(page) ==
    /\ shown' = playlist(page)
    /\ lastOp' = "playlist"
    /\ reply' = playlist(page).reply
    /\ halted' = None
    /\ UNCHANGED <<engine, voice, tasks, nextId, history, gate>>

\* check_conditions(ctx, music_player)
CheckConditions(ch, status, ctx_ch) ==
    /\ gate' = [called |-> TRUE, ch |-> ch, status |-> status,
                ctx_ch |-> ctx_ch,
                ok |-> check_conditions(ch, status, ctx_ch).ok,
                msg |-> check_conditions(ch, status, ctx_ch).msg]
    /\ lastOp' = "check_conditions"
    /\ reply' = check_conditions(ch, status, ctx_ch).msg
    /\ halted' = None
    /\ UNCHANGED <<engine, voice, tasks, nextId, history, shown>>

NextView ==
    \/ \E page \in Pages : Playlist(page)
    \/ \E ch, ctx_ch \in Channels \cup {None}, status \in Statuses :
          CheckConditions(ch, status, ctx_ch)

SpecView == InitView /\ [][NextView]_vars

\* ------------------------------------------------------------- properties
StopOps == {"stop_true", "stop_false"}
InLoop(t) == pc[t] # "idle"

\* C1: with no stop() so far, the entries started on the sink are the first
\* entries enqueued, in enqueue order with none left out, and the queue only
\* ever changes by an append at the tail, the removal of its head into
\* `current`, or a full clear.
C1_FIFO ==
    /\ [](stopMark = 1 => started = [i \in 1..Len(started) |-> i])
    /\ [][entry_queue' # entry_queue =>
            \/ entry_queue' = Append(entry_queue, nextId)
            \/ /\ entry_queue # <<>>
               /\ entry_queue' = Tail(entry_queue)
               /\ current' = Head(entry_queue)
            \/ entry_queue' = <<>>]_vars

C1_Witness == stopMark = 1 /\ Len(started) >= 2 /\ sink = started[2]

\* C2: at most one invocation of play() is inside the loop (entered and not
\* yet returned) at any time.
C2_OneLoop == Cardinality({t \in Tasks : InLoop(t)}) <= 1

\* C3: a call of play() while playing is true changes neither the queue,
\* current, playing nor the completion slot, and starts no loop.
C3_PlayNoOp ==
    [][(lastOp' = "play" /\ playing) =>
         UNCHANGED <<entry_queue, current, playing, finished, pc, cur>>]_vars

C3_Witness ==
    /\ lastOp = "play"
    /\ playing
    /\ entry_queue # <<>>
    /\ \E t \in Tasks : pc[t] = "wait"

C5_StopEffective == sink # None => sink >= stopMark

\* C6: the completion slot never holds more than one value, the callback of
\* an entry puts at most one value, and no callback finds the slot full.
C6_OneSignal ==
    /\ Len(finished) <= 1
    /\ \A e \in Entries : signals[e] <= 1
    /\ "QueueFull" \notin raised

C6_Witness ==
    /\ finished # <<>>
    /\ Len(started) >= 2
    /\ \A i \in 1..Len(started) : signals[started[i]] = 1

\* C7: every entry started on the sink after a stop() was enqueued after
\* that stop().
C7_NoResurface ==
    [][started' # started => started'[Len(started')] >= stopMark']_vars

\* C8: empty is true if and only if current is unset and the queue has zero
\* length.
C8_EmptyIff == empty <=> (current = None /\ Len(entry_queue) = 0)

C8_Witness == ~empty /\ current # None /\ entry_queue = <<>>

\* C9: skip() with current unset replies "Not playing anything.", changes
\* neither queue, current, playing nor the completion slot, does not consult
\* the skip policy and does not halt the sink.
C9_SkipNothing ==
    [][(lastOp' = "skip" /\ current = None) =>
         /\ reply' = "Not playing anything."
         /\ halted' = None
         /\ UNCHANGED <<entry_queue, current, playing, finished, vc, sink,
                        after, skipE>>]_vars

C9_Witness ==
    /\ lastOp = "skip"
    /\ reply = "Not playing anything."
    /\ playing
    /\ entry_queue # <<>>

\* C10: when the skip policy of the current entry answers skipped = true the
\* sink is halted and the entry's completion callback fires, so the entry is
\* not left to play; when it answers false nothing is halted, no message is
\* sent and queue, current and playing are unchanged.
C10_SkipHalts ==
    [][/\ lastOp' = "skipped" =>
            (after'[skipE] # "none" /\ sink' # skipE)
       /\ lastOp' = "not_skipped" =>
            /\ halted' = None
            /\ reply' = ""
            /\ sink' = sink
            /\ UNCHANGED <<entry_queue, current, playing>>]_vars

\* the number of queued entries plus the current entry, if any
QueuedPlusCurrent == Len(entry_queue) + (IF current = None THEN 0 ELSE 1)

\* C11 as stated: the total of pages of a rendered playlist is n \div 10 + 1
\* for n the number of queued entries plus the current entry.
C11_TotalPagesOfAll ==
    shown.rendered => shown.total_page = QueuedPlusCurrent \div 10 + 1

\* C11 as amended: the total of pages of a rendered playlist is n \div 10 + 1
\* for n the number of queued entries, the current entry not counted; it is
\* at least 1 and a multiple of 10 gives one page more.
C11_TotalPages ==
    shown.rendered =>
        /\ shown.total_page = Len(entry_queue) \div 10 + 1
        /\ shown.total_page >= 1
        /\ Len(entry_queue) = 10 => shown.total_page = 2

C11_Witness ==
    /\ shown.rendered
    /\ Len(entry_queue) = 9
    /\ current # None
    /\ shown.total_page = 1

\* the queued entries whose index i has 10*(page-1) <= i < 10*(page-1)+10
\* and 0 <= i < len(queue), in queue order
EntriesOfPage(page) ==
    LET lo == 10 * (page - 1)
        first == IF lo < 0 THEN 0 ELSE lo
        last == IF lo + 10 > Len(entry_queue) THEN Len(entry_queue) ELSE lo + 10
    IN  IF first < last THEN SubSeq(entry_queue, first + 1, last) ELSE <<>>

\* C12: on a non-empty engine playlist(page) renders exactly the queued
\* entries of that index range, for every integer page; when there is none
\* and no current entry it replies that the page is not in the playlist.
C12_PageSlice ==
    (shown.called /\ ~empty) =>
        IF EntriesOfPage(shown.page) = <<>> /\ current = None
        THEN ~shown.rendered /\ shown.reply = "Page is not in the playlist."
        ELSE shown.rendered /\ shown.section = EntriesOfPage(shown.page)

\* C13: the gate rejects with the voice-channel message when the engine is
\* idle and the caller is in no channel, rejects with the same-channel
\* message when the engine is active and attached to a channel other than
\* the caller's, and allows with no message in every other case.
C13_Gate ==
    gate.called =>
        IF gate.status = "NO" /\ gate.ch = None
        THEN /\ ~gate.ok
             /\ gate.msg = "You must be in a voice channel to use this command."
        ELSE IF /\ gate.status # "NO"
                /\ gate.ctx_ch # None
                /\ gate.ch # gate.ctx_ch
        THEN /\ ~gate.ok
             /\ gate.msg = "You must be in the same voicechannel as me to use this command."
        ELSE gate.ok /\ gate.msg = ""

C13_Witness ==
    /\ gate.called
    /\ gate.status # "NO"
    /\ gate.ctx_ch = None
    /\ gate.ch = None
    /\ gate.ok

\* the step in which invocation t of play() resumes with a completion signal
Resumes(t) ==
    /\ pc[t] \in {"announce", "wait"}
    /\ finished # <<>>
    /\ finished' = <<>>

\* C14 as stated: a loop that resumes on an empty engine sets playing to
\* false, stops without releasing the voice connection and exits; on a
\* non-empty engine it goes on with the next iteration.
C14_AutoStopKeepsConnection ==
    [][\A t \in Tasks : Resumes(t) =>
         IF empty
         THEN /\ playing' = FALSE
              /\ current' = None /\ entry_queue' = <<>>
              /\ pc'[t] = "idle"
              /\ vc' = vc
         ELSE playing' = TRUE /\ pc'[t] # "disconnect"]_vars

\* C14 as amended: a loop that resumes on an empty engine sets playing to
\* false, performs stop(ctx, True), which clears the engine, halts the sink
\* and, when a voice client exists, releases the connection before the loop
\* exits; on a non-empty engine it goes on with the next iteration.
C14_AutoStop ==
    /\ [][\A t \in Tasks : Resumes(t) =>
            IF empty
            THEN /\ playing' = FALSE
                 /\ current' = None /\ entry_queue' = <<>>
                 /\ sink' = None
                 /\ pc'[t] = (IF vc THEN "disconnect" ELSE "idle")
                 /\ vc' = vc
            ELSE /\ playing' = TRUE
                 /\ pc'[t] # "disconnect"
                 /\ entry_queue # <<>> =>
                      /\ current' = Head(entry_queue)
                      /\ pc'[t] \in {"typing", "announce"}]_vars
    /\ [][\A t \in Tasks : (pc[t] = "disconnect" /\ pc'[t] # "disconnect") =>
            (vc' = FALSE /\ pc'[t] = "idle")]_vars

C14_Witness ==
    /\ lastOp \in {"get", "announce"}
    /\ ~playing
    /\ vc
    /\ \E t \in Tasks : pc[t] = "disconnect"

\* C15: the loop never executes popleft() on an empty queue, so no
\* IndexError (the EmptyQueue of the specification) is ever raised.
C15_NoEmptyPop == "IndexError" \notin raised

\* C16: current is cleared only by stop() or by the completion callback of
\* the entry it holds: a callback of an earlier entry never clears the slot
\* of a later one.
C16_HeldUntilFinished ==
    [][(current # None /\ current' = None) =>
         \/ lastOp' \in StopOps
         \/ lastOp' = "after_clear" /\ after[current] = "clear"]_vars

\* C17: every value the completion callback of an entry puts into the
\* completion slot is that entry.
C17_SignalIsEntry ==
    [][\A e \in Entries : (after[e] \in Putting /\ after'[e] = "clear") =>
         finished' = <<e>>]_vars

\* C18: a completion callback invoked with an error changes the engine as
\* one invoked without (signal put, then current cleared), the failed entry
\* is not started again, and the loop that resumes on its signal goes on to
\* the next entry or stops: it is not left dead with playing true.
C18_ErrorIsCompletion ==
    /\ [](\A i, j \in 1..Len(started) : i # j => started[i] # started[j])
    /\ [][\A e \in Entries : (after[e] = "put_err" /\ after'[e] # "put_err") =>
            /\ finished' = Append(finished, current)
            /\ after'[e] = "clear"
            /\ UNCHANGED <<entry_queue, current, playing>>]_vars
    /\ [][(lastOp = "after_put" /\ reply = "warn") =>
            \A t \in Tasks : Resumes(t) => ~(pc'[t] = "idle" /\ playing')]_vars

\* C19: the engine is never left with playing true and no invocation of
\* play() inside the loop to bring it back to idle.
C19_PlayingHasLoop == playing => \E t \in Tasks : InLoop(t)

\* C20: the entry whose playback a skip() halts is the entry whose skip
\* policy answered skipped = true.
C20_SkipHaltsVoted ==
    [][(lastOp' = "skipped" /\ halted' # None) => halted' = skipE]_vars

====
